---- MODULE Spec2Model ----
(***************************************************************************)
(* A model of src/src/game.rs: the move parser, the two input readers, the *)
(* N x N GameBoard with its line scan, and the game loop                   *)
(* play_game_with_reader.                                                  *)
(*                                                                         *)
(* A String is a sequence of one-character strings.  Option and Result     *)
(* values are records with a "tag" field.  Vec indices are 0-based in the  *)
(* source and 1-based here: data[to_index(pos) + 1].                       *)
(***************************************************************************)
EXTENDS Integers, Sequences, FiniteSets, TLC

\* Largest board dimension explored: boards are built for 1..MaxDim.
MaxDim == 3

\* Longest free-form script handed to PresetMoveReader::new.
MaxScriptLen == 2

\* Largest board dimension explored when make_move is called directly with
\* any coordinate and any mark.
MaxBoardDim == 2

\* Longest string over LineAlphabet handed to parse_move on its own.
MaxLineLen == 4

\* Calls made to PresetMoveReader::read after the one that first returns None.
MaxExtraReads == 2

VARIABLES
    dimension,     \* GameBoard.dimension
    data,          \* GameBoard.data : Vec<Option<PositionState>>
    moves_made,    \* GameBoard.moves_made
    max_moves,     \* GameBoard.max_moves
    reader_kind,   \* which GameInputReader drives the loop: "stdin" | "preset"
    moves,         \* PresetMoveReader.moves
    index,         \* PresetMoveReader.index
    current_side,  \* play_game_with_reader: the local current_side
    pc,            \* "loop", or the way the loop was left
    reads,         \* history: calls made to PresetMoveReader::read
    stdin_event,   \* history: what io::stdin().read_line did on the last read
    input,         \* history: the Option<String> the last read returned
    parsed,        \* history: the result of parse_move in the last iteration
    called,        \* history: the arguments of the last make_move call
    move_result,   \* history: the result of the last make_move call
    first_placed   \* history: per cell, the mark of the first successful placement

vars == <<dimension, data, moves_made, max_moves, reader_kind, moves, index,
          current_side, pc, reads, stdin_event, input, parsed, called,
          move_result, first_placed>>

----------------------------------------------------------------------------
(* Values *)

PositionState == {"Nought", "Cross"}

None == [tag |-> "None"]
Some(v) == [tag |-> "Some", val |-> v]
Ok(v) == [tag |-> "Ok", val |-> v]
Err(e) == [tag |-> "Err", err |-> e]

Coordinate(x, y) == [x |-> x, y |-> y]

\* impl From<PositionState> for GameResult
GameResultFrom(state) == IF state = "Cross" THEN "CrossWin" ELSE "NoughtWin"

InvalidCoordinate(coord) == [tag |-> "InvalidCoordinate", coord |-> coord]
InvalidMove(to, from) == [tag |-> "InvalidMove", to |-> to, from |-> from]

FormatError == [tag |-> "FormatError"]
CoordinateError(e) == [tag |-> "CoordinateError", cause |-> e]

Quit == [tag |-> "Quit"]
Move(coord) == [tag |-> "Move", coord |-> coord]

----------------------------------------------------------------------------
(* Text: str::trim, str::split(','), str::parse::<usize> *)

Digits == <<"0", "1", "2", "3", "4", "5", "6", "7", "8", "9">>

IsDigit(c) == \E i \in 1..10 : Digits[i] = c

\* char::to_digit(10) of a digit character
to_digit(c) == (CHOOSE i \in 1..10 : Digits[i] = c) - 1

\* char::is_whitespace, on the characters the model uses
IsWhitespace(c) == c \in {" ", "\t", "\n", "\r"}

RECURSIVE trim_start(_)
trim_start(s) ==
    IF s # <<>> /\ IsWhitespace(Head(s)) THEN trim_start(Tail(s)) ELSE s

RECURSIVE trim_end(_)
trim_end(s) ==
    IF s # <<>> /\ IsWhitespace(s[Len(s)])
    THEN trim_end(SubSeq(s, 1, Len(s) - 1))
    ELSE s

trim(s) == trim_end(trim_start(s))

RECURSIVE split_from(_, _, _)
split_from(s, i, cur) ==
    IF i > Len(s) THEN <<cur>>
    ELSE IF s[i] = "," THEN <<cur>> \o split_from(s, i + 1, <<>>)
    ELSE split_from(s, i + 1, Append(cur, s[i]))

\* input.split(',').collect::<Vec<_>>()
split(s) == split_from(s, 1, <<>>)

\* usize::MAX = 18446744073709551615, as its decimal digits
UsizeMaxDigits ==
    <<1, 8, 4, 4, 6, 7, 4, 4, 0, 7, 3, 7, 0, 9, 5, 5, 1, 6, 1, 5>>

RECURSIVE LexLeq(_, _)
LexLeq(a, b) ==
    IF a = <<>> THEN TRUE
    ELSE IF Head(a) < Head(b) THEN TRUE
    ELSE IF Head(a) > Head(b) THEN FALSE
    ELSE LexLeq(Tail(a), Tail(b))

\* A usize accumulator is kept as its decimal digits without leading zeros
\* (<<>> is zero), so that the overflow checks are those of a 64-bit usize.
FitsUsize(ds) ==
    \/ Len(ds) < Len(UsizeMaxDigits)
    \/ Len(ds) = Len(UsizeMaxDigits) /\ LexLeq(ds, UsizeMaxDigits)

\* The value of an accumulator.  The inputs of the model hold no coordinate
\* between 2^31 and usize::MAX, the range the checker's integers lack.
RECURSIVE NatOf(_)
NatOf(ds) ==
    IF ds = <<>> THEN 0 ELSE 10 * NatOf(SubSeq(ds, 1, Len(ds) - 1)) + ds[Len(ds)]

\* The digit loop of usize::from_str_radix(_, 10), left to right: to_digit
\* (InvalidDigit), then checked_mul(10) and checked_add(digit) (PosOverflow).
RECURSIVE parse_digits(_, _, _)
parse_digits(s, i, acc) ==
    IF i > Len(s) THEN Ok(NatOf(acc))
    ELSE IF ~IsDigit(s[i]) THEN Err("InvalidDigit")
    ELSE IF acc # <<>> /\ ~FitsUsize(Append(acc, 0)) THEN Err("PosOverflow")
    ELSE LET d == to_digit(s[i])
             next == IF acc = <<>> /\ d = 0 THEN <<>> ELSE Append(acc, d)
         IN  IF ~FitsUsize(next) THEN Err("PosOverflow")
             ELSE parse_digits(s, i + 1, next)

\* str::parse::<usize> dropping a leading sign of either kind.
parse_usize_sign_dropped(s) ==
    IF s = <<>> THEN Err("Empty")
    ELSE IF s = <<"+">> \/ s = <<"-">> THEN Err("InvalidDigit")
    ELSE IF Head(s) \in {"+", "-"} THEN parse_digits(Tail(s), 1, <<>>)
    ELSE parse_digits(s, 1, <<>>)

\* str::parse::<usize>: "" is Empty, a lone sign is InvalidDigit, one leading
\* '+' is accepted, '-' is not a digit of an unsigned type.
parse_usize(s) ==
    IF s = <<>> THEN Err("Empty")
    ELSE IF s = <<"+">> \/ s = <<"-">> THEN Err("InvalidDigit")
    ELSE IF Head(s) = "+" THEN parse_digits(Tail(s), 1, <<>>)
    ELSE parse_digits(s, 1, <<>>)

\* parse_move parsing the first field before it counts the fields.
parse_move_field_first(s) ==
    IF s = <<"q">> \/ s = <<"Q">> THEN Ok(Quit)
    ELSE LET args == split(s)
             x == parse_usize(args[1]) IN
         IF x.tag = "Err" THEN Err(CoordinateError(x.err))
         ELSE IF Len(args) # 2 THEN Err(FormatError)
         ELSE LET y == parse_usize(args[2]) IN
              IF y.tag = "Err" THEN Err(CoordinateError(y.err))
              ELSE Ok(Move(Coordinate(x.val, y.val)))

\* fn parse_move(input: &str) -> Result<ParsedMove, ParseMoveError>
parse_move(s) ==
    IF s = <<"q">> \/ s = <<"Q">> THEN Ok(Quit)
    ELSE LET args == split(s) IN
         IF Len(args) # 2 THEN Err(FormatError)
         ELSE LET x == parse_usize(args[1]) IN
              IF x.tag = "Err" THEN Err(CoordinateError(x.err))
              ELSE LET y == parse_usize(args[2]) IN
                   IF y.tag = "Err" THEN Err(CoordinateError(y.err))
                   ELSE Ok(Move(Coordinate(x.val, y.val)))

----------------------------------------------------------------------------
(* mod input: the two GameInputReader implementations *)

\* StdInGameReader::read, given what io::stdin().read_line(&mut input) did:
\* Ok(n) with the bytes appended to the empty buffer, or Err.  At end of
\* stream read_line is Ok(0) and the buffer stays empty.
StdInGameReader_read(read_result) ==
    IF read_result.tag = "Ok" THEN Some(read_result.val) ELSE None

\* PresetMoveReader::read rewinding the cursor when the script has run out.
PresetMoveReader_read_rewinding(self_moves, self_index) ==
    IF self_index >= Len(self_moves)
    THEN [ret |-> None, index |-> 0]
    ELSE [ret |-> Some(self_moves[self_index + 1]), index |-> self_index + 1]

\* PresetMoveReader::read: the returned Option and the cursor afterwards
PresetMoveReader_read(self_moves, self_index) ==
    IF self_index >= Len(self_moves)
    THEN [ret |-> None, index |-> self_index]
    ELSE [ret |-> Some(self_moves[self_index + 1]), index |-> self_index + 1]

----------------------------------------------------------------------------
(* GameBoard *)

\* GameBoard::new with the draw threshold at the full board.
GameBoard_new_full_threshold(dim) ==
    [dimension |-> dim,
     data |-> [i \in 1..(dim * dim) |-> "None"],
     moves_made |-> 0,
     max_moves |-> dim * dim]

\* GameBoard::new, for dimension >= 1
GameBoard_new(dim) ==
    [dimension |-> dim,
     data |-> [i \in 1..(dim * dim) |-> "None"],
     moves_made |-> 0,
     max_moves |-> dim * dim - 1]

\* usize::MAX, the value 0 - 1 wraps to in a build without overflow checks.
\* It is kept as the residue of -1 modulo 2^64: the only use of max_moves is
\* its equality with moves_made, which no count of moves satisfies.
UsizeMaxResidue == 0 - 1

\* GameBoard::new as a build runs it.  dimension.pow(2) - 1 at dimension 0 is
\* 0 - 1 on usize: a panic with overflow checks (the debug profile), the
\* wrapped value without them (the release profile).
GameBoard_new_built(dim, overflow_checks) ==
    IF dim * dim >= 1 THEN [tag |-> "Board", board |-> GameBoard_new(dim)]
    ELSE IF overflow_checks THEN [tag |-> "Panic"]
    ELSE [tag |-> "Board",
          board |-> [dimension |-> dim,
                     data |-> <<>>,
                     moves_made |-> 0,
                     max_moves |-> UsizeMaxResidue]]

valid_coordinate(self, pos) == pos.x < self.dimension /\ pos.y < self.dimension

to_index(self, pos) == pos.x + (pos.y * self.dimension)

\* The for loop of determine_line_result from index i on; coord_func is the
\* closure, as a function on 0..dimension-1.
RECURSIVE line_loop(_, _, _, _)
line_loop(self, state, coord_func, i) ==
    IF i >= self.dimension THEN "None"
    ELSE LET entry == self.data[to_index(self, coord_func[i]) + 1] IN
         IF entry = "None" \/ entry # state THEN "None"
         ELSE IF i = self.dimension - 1 THEN GameResultFrom(state)
         ELSE line_loop(self, state, coord_func, i + 1)

\* Option<GameResult>: "None", or the result
determine_line_result(self, state, coord_func) ==
    line_loop(self, state, coord_func, 0)

\* determine_game_result without the scan of the opposite diagonal.
determine_game_result_no_opposite(self, pos, state) ==
    LET n == self.dimension
        column == determine_line_result(self, state,
                      [y \in 0..(n - 1) |-> Coordinate(pos.x, y)])
        row == determine_line_result(self, state,
                      [x \in 0..(n - 1) |-> Coordinate(x, pos.y)])
        diagonal == determine_line_result(self, state,
                      [i \in 0..(n - 1) |-> Coordinate(i, i)])
    IN  IF column # "None" THEN column
        ELSE IF row # "None" THEN row
        ELSE IF pos.x = pos.y /\ diagonal # "None" THEN diagonal
        ELSE IF self.moves_made = self.max_moves THEN "Draw"
        ELSE "Ongoing"

\* determine_game_result without the scan of the row.
determine_game_result_no_row(self, pos, state) ==
    LET n == self.dimension
        column == determine_line_result(self, state,
                      [y \in 0..(n - 1) |-> Coordinate(pos.x, y)])
        diagonal == determine_line_result(self, state,
                      [i \in 0..(n - 1) |-> Coordinate(i, i)])
        opposite == determine_line_result(self, state,
                      [i \in 0..(n - 1) |-> Coordinate(i, n - 1 - i)])
    IN  IF column # "None" THEN column
        ELSE IF pos.x = pos.y /\ diagonal # "None" THEN diagonal
        ELSE IF pos.x + pos.y = n - 1 /\ opposite # "None" THEN opposite
        ELSE IF self.moves_made = self.max_moves THEN "Draw"
        ELSE "Ongoing"

determine_game_result(self, pos, state) ==
    LET n == self.dimension
        column == determine_line_result(self, state,
                      [y \in 0..(n - 1) |-> Coordinate(pos.x, y)])
        row == determine_line_result(self, state,
                      [x \in 0..(n - 1) |-> Coordinate(x, pos.y)])
        diagonal == determine_line_result(self, state,
                      [i \in 0..(n - 1) |-> Coordinate(i, i)])
        opposite == determine_line_result(self, state,
                      [i \in 0..(n - 1) |-> Coordinate(i, n - 1 - i)])
    IN  IF column # "None" THEN column
        ELSE IF row # "None" THEN row
        ELSE IF pos.x = pos.y /\ diagonal # "None" THEN diagonal
        ELSE IF pos.x + pos.y = n - 1 /\ opposite # "None" THEN opposite
        ELSE IF self.moves_made = self.max_moves THEN "Draw"
        ELSE "Ongoing"

\* make_move looking at the cell of the flat index before it validates the
\* coordinate.
make_move_occupancy_first(self, pos, new_state) ==
    LET idx == to_index(self, pos) + 1 IN
    IF idx <= Len(self.data) /\ self.data[idx] # "None"
    THEN [self |-> self, ret |-> Err(InvalidMove(new_state, self.data[idx]))]
    ELSE IF ~valid_coordinate(self, pos)
    THEN [self |-> self, ret |-> Err(InvalidCoordinate(pos))]
    ELSE LET placed == [self EXCEPT !.data[idx] = new_state,
                                    !.moves_made = @ + 1]
         IN  [self |-> placed,
              ret |-> Ok(determine_game_result(placed, pos, new_state))]

\* make_move with the two marks of InvalidMove in the other order.
make_move_marks_swapped(self, pos, new_state) ==
    IF ~valid_coordinate(self, pos)
    THEN [self |-> self, ret |-> Err(InvalidCoordinate(pos))]
    ELSE LET idx == to_index(self, pos) + 1 IN
         IF self.data[idx] # "None"
         THEN [self |-> self, ret |-> Err(InvalidMove(self.data[idx], new_state))]
         ELSE LET placed == [self EXCEPT !.data[idx] = new_state,
                                         !.moves_made = @ + 1]
              IN  [self |-> placed,
                   ret |-> Ok(determine_game_result(placed, pos, new_state))]

\* make_move counting the call before it looks at the cell, so that a call
\* on an occupied cell is counted as well.
make_move_counts_rejected(self, pos, new_state) ==
    IF ~valid_coordinate(self, pos)
    THEN [self |-> self, ret |-> Err(InvalidCoordinate(pos))]
    ELSE LET idx == to_index(self, pos) + 1
             counted == [self EXCEPT !.moves_made = @ + 1] IN
         IF self.data[idx] # "None"
         THEN [self |-> counted,
               ret |-> Err(InvalidMove(new_state, self.data[idx]))]
         ELSE LET placed == [counted EXCEPT !.data[idx] = new_state]
              IN  [self |-> placed,
                   ret |-> Ok(determine_game_result(placed, pos, new_state))]

\* make_move rejecting only a cell that already holds the mark being placed,
\* so that the other side's mark is written over.
make_move_overwrites_other(self, pos, new_state) ==
    IF ~valid_coordinate(self, pos)
    THEN [self |-> self, ret |-> Err(InvalidCoordinate(pos))]
    ELSE LET idx == to_index(self, pos) + 1 IN
         IF self.data[idx] = new_state
         THEN [self |-> self, ret |-> Err(InvalidMove(new_state, self.data[idx]))]
         ELSE LET placed == [self EXCEPT !.data[idx] = new_state,
                                         !.moves_made = @ + 1]
              IN  [self |-> placed,
                   ret |-> Ok(determine_game_result(placed, pos, new_state))]

\* GameBoard::make_move: the board afterwards and the returned Result
make_move(self, pos, new_state) ==
    IF ~valid_coordinate(self, pos)
    THEN [self |-> self, ret |-> Err(InvalidCoordinate(pos))]
    ELSE LET idx == to_index(self, pos) + 1 IN
         IF self.data[idx] # "None"
         THEN [self |-> self, ret |-> Err(InvalidMove(new_state, self.data[idx]))]
         ELSE LET placed == [self EXCEPT !.data[idx] = new_state,
                                         !.moves_made = @ + 1]
              IN  [self |-> placed,
                   ret |-> Ok(determine_game_result(placed, pos, new_state))]

----------------------------------------------------------------------------
(* Inputs *)

RECURSIVE FormatNat(_)
\* Display of a usize
FormatNat(n) ==
    IF n < 10 THEN <<Digits[n + 1]>>
    ELSE Append(FormatNat(n \div 10), Digits[(n % 10) + 1])

\* impl fmt::Display for Coordinate: "{},{}"
FormatCoordinate(coord) == FormatNat(coord.x) \o <<",">> \o FormatNat(coord.y)

\* Coordinates offered to a board: every cell of an n x n board, and
\* coordinates one column, one row, and both beyond it.
CoordsFor(n) ==
    {Coordinate(x, y) : x \in 0..(n - 1), y \in 0..(n - 1)}
    \cup {Coordinate(n, 0), Coordinate(0, n), Coordinate(n, n)}

Coords == CoordsFor(MaxDim)

CoordLines == {FormatCoordinate(c) : c \in Coords}

\* Lines that are no plain "x,y": quit, the malformed inputs of
\* tests::parse_move_test, padded and signed coordinates, and a coordinate
\* past usize::MAX.
OtherLines ==
    { <<"q">>, <<"Q">>, <<>>,
      <<"1", ",", "2", ",", "3">>,
      <<"a", ",", "1">>,
      <<",">>,
      <<"-", "1", ",", "0">>,
      <<"+", "1", ",", "0">>,
      <<" ", "1", ",", "1", "\t">>,
      <<"0", ",", " ", "0">>,
      <<"0", ",">> \o [i \in 1..20 |-> "9"] }

Lines == CoordLines \cup OtherLines

\* What read_line can leave in the buffer: a line with its newline, or the
\* unterminated last line of a stream.
StdinLines ==
    {l \o <<"\n">> : l \in Lines}
    \cup { <<"0", ",", "0">>, <<"1", ",", "1", "\r", "\n">> }

\* The characters of the strings handed to parse_move on its own.
LineAlphabet == {"q", "Q", ",", "0", "1", "a", "-", "+", " "}

\* tests::parse_move_test: "3,6", "q", "Q", "1,2,3", "a,1", ",", "-1,0"
ParseTestInputs ==
    { <<"3", ",", "6">>, <<"q">>, <<"Q">>,
      <<"1", ",", "2", ",", "3">>,
      <<"a", ",", "1">>,
      <<",">>,
      <<"-", "1", ",", "0">> }

\* Coordinates around the width of usize: usize::MAX + 1, twenty nines, and
\* the number 1 written with twenty zeros before it.
WideInputs ==
    { <<"1", "8", "4", "4", "6", "7", "4", "4", "0", "7", "3", "7", "0", "9",
        "5", "5", "1", "6", "1", "6", ",", "0">>,
      <<"0", ",">> \o [i \in 1..20 |-> "9"],
      [i \in 1..20 |-> "0"] \o <<"1", ",", "0">> }

\* Every string over LineAlphabet of at most MaxLineLen characters, and the
\* strings above.
ParseInputs ==
    UNION {[1..n -> LineAlphabet] : n \in 0..MaxLineLen}
    \cup ParseTestInputs \cup WideInputs

\* tests::test_game: ["0,0", "1,1", "0,1", "2,0", "0,2"]
TestGameMoves ==
    << <<"0", ",", "0">>, <<"1", ",", "1">>, <<"0", ",", "1">>,
       <<"2", ",", "0">>, <<"0", ",", "2">> >>

\* Every String the loop can be handed: a script's line, a line of stdin, or
\* the empty buffer of an end of stream.
AllInputs == Lines \cup StdinLines \cup {<<>>}

Scripts ==
    {TestGameMoves} \cup
    UNION {[1..n -> Lines] : n \in 0..MaxScriptLen}

----------------------------------------------------------------------------
(* GameBoard::play_game_with_reader *)

\* parse_move(input.trim()), tabulated once over the inputs of the model.
ParseTrimmed == [l \in AllInputs |-> parse_move(trim(l))]

NotReached == [tag |-> "NotReached"]

\* The flip of current_side with both arms giving the side itself.
OtherSide_same(side) == side

OtherSide(side) == IF side = "Cross" THEN "Nought" ELSE "Cross"

\* Each arm below gives the board, the side to move and the control state
\* at the end of the iteration, with what parse_move and make_move returned
\* (NotReached when not invoked).  pc is "loop" while the loop runs, and
\* names the way it was left afterwards: "input_failure", "quit", or the
\* GameResult that was printed.

\* The None arm without its break.
on_read_none_continue(self, side) ==
    [self |-> self, current_side |-> side, pc |-> "loop",
     parsed |-> NotReached, called |-> NotReached, move_result |-> NotReached]

\* input_reader.read() returned None: break
on_read_none(self, side) ==
    [self |-> self, current_side |-> side, pc |-> "input_failure",
     parsed |-> NotReached, called |-> NotReached, move_result |-> NotReached]

\* The Err(bad_move) arm passing the turn to the other side.
on_parse_err_turn_consumed(self, side, p) ==
    [self |-> self, current_side |-> OtherSide(side), pc |-> "loop",
     parsed |-> p, called |-> NotReached, move_result |-> NotReached]

\* parse_move returned Err(bad_move): continue
on_parse_err(self, side, p) ==
    [self |-> self, current_side |-> side, pc |-> "loop",
     parsed |-> p, called |-> NotReached, move_result |-> NotReached]

\* ParsedMove::Quit: break
on_quit(self, side, p) ==
    [self |-> self, current_side |-> side, pc |-> "quit",
     parsed |-> p, called |-> NotReached, move_result |-> NotReached]

\* The match with the turn flipped on every arm that stays in the loop.
on_move_result_flip_on_err(side, ret) ==
    IF ret.tag = "Ok" /\ ret.val # "Ongoing"
    THEN [current_side |-> side, pc |-> ret.val]
    ELSE [current_side |-> OtherSide(side), pc |-> "loop"]

\* The match without the break of the Ok(game_result) arm.
on_move_result_no_break(side, ret) ==
    IF ret.tag = "Ok" /\ ret.val = "Ongoing"
    THEN [current_side |-> OtherSide(side), pc |-> "loop"]
    ELSE [current_side |-> side, pc |-> "loop"]

\* match move_result { Ok(Ongoing) => flip, Ok(game_result) => break,
\*                     Err(move_error) => try again }
on_move_result(side, ret) ==
    IF ret.tag = "Ok" /\ ret.val = "Ongoing"
    THEN [current_side |-> OtherSide(side), pc |-> "loop"]
    ELSE IF ret.tag = "Ok"
    THEN [current_side |-> side, pc |-> ret.val]
    ELSE [current_side |-> side, pc |-> "loop"]

\* ParsedMove::Move(move_pos): make_move with current_side, then the match
on_move(self, side, p) ==
    LET m == make_move(self, p.val.coord, side)
        after == on_move_result(side, m.ret)
    IN  [self |-> m.self, current_side |-> after.current_side,
         pc |-> after.pc, parsed |-> p,
         called |-> [pos |-> p.val.coord, new_state |-> side],
         move_result |-> m.ret]

\* One iteration of the loop, once input_reader.read() returned read_ret.
loop_body(self, side, read_ret) ==
    IF read_ret.tag = "None" THEN on_read_none(self, side)
    ELSE LET p == ParseTrimmed[read_ret.val] IN
         IF p.tag = "Err" THEN on_parse_err(self, side, p)
         ELSE IF p.val.tag = "Quit" THEN on_quit(self, side, p)
         ELSE on_move(self, side, p)

----------------------------------------------------------------------------
(* The state machine *)

Self ==
    [dimension |-> dimension, data |-> data,
     moves_made |-> moves_made, max_moves |-> max_moves]

Cells(n) == {Coordinate(x, y) : x \in 0..(n - 1), y \in 0..(n - 1)}

\* A board fresh from GameBoard::new, with nothing read or called yet.
InitBoardWith(dim) ==
    \E b \in {GameBoard_new(dim)} :
        /\ dimension = b.dimension
        /\ data = b.data
        /\ moves_made = b.moves_made
        /\ max_moves = b.max_moves
        /\ first_placed = [c \in Cells(dim) |-> "None"]
        /\ stdin_event = "none"
        /\ input = NotReached
        /\ parsed = NotReached
        /\ called = NotReached
        /\ move_result = NotReached
        /\ reads = 0
        /\ index = 0
        /\ current_side = "Nought"

\* The entry of the loop of play_game_with_reader on a fresh board, with
\* either reader.
Init ==
    \E dim \in 1..MaxDim :
        /\ InitBoardWith(dim)
        /\ pc = "loop"
        /\ \/ reader_kind = "stdin" /\ moves = <<>>
           \/ reader_kind = "preset" /\ moves \in Scripts

\* What a make_move call adds to the first_placed history: the mark, when
\* the call succeeded at a cell no call had succeeded at before.
RecordPlacement(fp, pos, new_state, ret) ==
    IF ret.tag = "Ok" /\ pos \in DOMAIN fp /\ fp[pos] = "None"
    THEN [fp EXCEPT ![pos] = new_state]
    ELSE fp

\* The rest of an iteration once the reader has returned read_ret.
Iterate(read_ret) ==
    \E r \in {loop_body(Self, current_side, read_ret)} :
        /\ input' = read_ret
        /\ data' = r.self.data
        /\ moves_made' = r.self.moves_made
        /\ dimension' = r.self.dimension
        /\ max_moves' = r.self.max_moves
        /\ current_side' = r.current_side
        /\ pc' = r.pc
        /\ parsed' = r.parsed
        /\ called' = r.called
        /\ move_result' = r.move_result
        /\ first_placed' =
              IF r.called = NotReached THEN first_placed
              ELSE RecordPlacement(first_placed, r.called.pos,
                                   r.called.new_state, r.move_result)

\* An iteration driven by PresetMoveReader.
PresetIteration ==
    /\ pc = "loop"
    /\ reader_kind = "preset"
    /\ \E rd \in {PresetMoveReader_read(moves, index)} :
          /\ index' = rd.index
          /\ reads' = reads + 1
          /\ Iterate(rd.ret)
    /\ UNCHANGED <<reader_kind, moves, stdin_event>>

\* An iteration driven by StdInGameReader: read_line delivers a line.
StdinLineIteration ==
    /\ pc = "loop"
    /\ reader_kind = "stdin"
    /\ \E l \in StdinLines : Iterate(StdInGameReader_read(Ok(l)))
    /\ stdin_event' = "line"
    /\ UNCHANGED <<reader_kind, moves, index, reads>>

\* read_line at end of stream: Ok(0), nothing appended.
StdinEofIteration ==
    /\ pc = "loop"
    /\ reader_kind = "stdin"
    /\ Iterate(StdInGameReader_read(Ok(<<>>)))
    /\ stdin_event' = "eof"
    /\ UNCHANGED <<reader_kind, moves, index, reads>>

\* read_line fails.
StdinErrorIteration ==
    /\ pc = "loop"
    /\ reader_kind = "stdin"
    /\ Iterate(StdInGameReader_read(Err("io")))
    /\ stdin_event' = "error"
    /\ UNCHANGED <<reader_kind, moves, index, reads>>

Next ==
    \/ PresetIteration
    \/ StdinLineIteration
    \/ StdinEofIteration
    \/ StdinErrorIteration

Spec == Init /\ [][Next]_vars

\* The loop runs on without pause: an iteration that can be taken is taken,
\* provided the reader returns.  PresetMoveReader::read always returns;
\* read_line may block for ever, so no fairness is stated for stdin.
FairSpec == Spec /\ WF_vars(PresetIteration)

\* make_move called directly on a fresh board, any coordinate, any mark,
\* any number of times.
InitBoard ==
    \E dim \in 1..MaxBoardDim :
        /\ InitBoardWith(dim)
        /\ pc = "not_started"
        /\ reader_kind = "none"
        /\ moves = <<>>

MakeMoveCall ==
    \E pos \in CoordsFor(MaxBoardDim), new_state \in PositionState :
        \E m \in {make_move(Self, pos, new_state)} :
            /\ data' = m.self.data
            /\ moves_made' = m.self.moves_made
            /\ dimension' = m.self.dimension
            /\ max_moves' = m.self.max_moves
            /\ called' = [pos |-> pos, new_state |-> new_state]
            /\ move_result' = m.ret
            /\ first_placed' = RecordPlacement(first_placed, pos, new_state, m.ret)
            /\ UNCHANGED <<reader_kind, moves, index, current_side, pc, reads,
                           stdin_event, input, parsed>>

NextBoard == MakeMoveCall

SpecBoard == InitBoard /\ [][NextBoard]_vars

\* The game loop and the direct calls side by side: a run is either a game
\* driven by play_game_with_reader or a sequence of make_move calls on a
\* fresh board.
DirectCall == pc = "not_started" /\ MakeMoveCall

NextAny == Next \/ DirectCall

SpecAny == (Init \/ InitBoard) /\ [][NextAny]_vars

\* No board, reader or loop: the values of the variables an operation called
\* on its own does not touch.
NoBoard ==
    /\ dimension = 0
    /\ data = <<>>
    /\ moves_made = 0
    /\ max_moves = 0
    /\ first_placed = <<>>
    /\ called = NotReached
    /\ move_result = NotReached
    /\ current_side = "Nought"

NoReader ==
    /\ reader_kind = "none"
    /\ moves = <<>>
    /\ index = 0
    /\ reads = 0
    /\ stdin_event = "none"

\* parse_move called on its own, as tests::parse_move_test calls it: input
\* holds the argument, parsed the result.
InitParse ==
    /\ NoBoard
    /\ NoReader
    /\ pc = "parse_move"
    /\ input \in {Some(s) : s \in ParseInputs}
    /\ parsed = NotReached

ParseMoveCall ==
    /\ pc = "parse_move"
    /\ parsed' = parse_move(input.val)
    /\ pc' = "parsed"
    /\ UNCHANGED <<dimension, data, moves_made, max_moves, reader_kind, moves,
                   index, current_side, reads, stdin_event, input, called,
                   move_result, first_placed>>

NextParse == ParseMoveCall

SpecParse == InitParse /\ [][NextParse]_vars

\* PresetMoveReader::new(moves) and then read called on it, on its own, up to
\* MaxExtraReads times more than the script has lines.
InitReader ==
    /\ NoBoard
    /\ reader_kind = "preset"
    /\ moves \in Scripts
    /\ index = 0
    /\ reads = 0
    /\ stdin_event = "none"
    /\ pc = "reader"
    /\ input = NotReached
    /\ parsed = NotReached

ReaderRead ==
    /\ pc = "reader"
    /\ reads <= Len(moves) + MaxExtraReads
    /\ \E rd \in {PresetMoveReader_read(moves, index)} :
           /\ input' = rd.ret
           /\ index' = rd.index
    /\ reads' = reads + 1
    /\ UNCHANGED <<dimension, data, moves_made, max_moves, reader_kind, moves,
                   current_side, pc, stdin_event, parsed, called, move_result,
                   first_placed>>

NextReader == ReaderRead

SpecReader == InitReader /\ [][NextReader]_vars

\* GameBoard::new called with any dimension from 0, by a build of either
\* kind, and make_move called directly on the board it returns.
InitNew ==
    /\ NoBoard
    /\ NoReader
    /\ pc = "new"
    /\ input = NotReached
    /\ parsed = NotReached

GameBoardNew ==
    /\ pc = "new"
    /\ \E dim \in 0..MaxBoardDim, overflow_checks \in BOOLEAN :
           \E b \in {GameBoard_new_built(dim, overflow_checks)} :
               IF b.tag = "Panic"
               THEN /\ pc' = "panicked"
                    /\ UNCHANGED <<dimension, data, moves_made, max_moves,
                                   first_placed>>
               ELSE /\ pc' = "not_started"
                    /\ dimension' = b.board.dimension
                    /\ data' = b.board.data
                    /\ moves_made' = b.board.moves_made
                    /\ max_moves' = b.board.max_moves
                    /\ first_placed' = [c \in Cells(dim) |-> "None"]
    /\ UNCHANGED <<reader_kind, moves, index, current_side, reads,
                   stdin_event, input, parsed, called, move_result>>

NextNew == GameBoardNew \/ DirectCall

SpecNew == InitNew /\ [][NextNew]_vars

----------------------------------------------------------------------------
(* The board as the claims read it *)

\* The content of the cell at coordinate c.
CellAt(c) == data[c.y * dimension + c.x + 1]

\* The 2N+2 lines of an n x n board, each as its set of coordinates.
BoardLines(n) ==
    {{Coordinate(x, y) : y \in 0..(n - 1)} : x \in 0..(n - 1)}
    \cup {{Coordinate(x, y) : x \in 0..(n - 1)} : y \in 0..(n - 1)}
    \cup {{Coordinate(i, i) : i \in 0..(n - 1)}}
    \cup {{Coordinate(i, n - 1 - i) : i \in 0..(n - 1)}}

\* Line l is wholly of mark m.
LineOf(l, m) == \A c \in l : CellAt(c) = m

\* Placing at pos completed a line of m: some line through pos is wholly m.
CompletesLine(pos, m) ==
    \E l \in BoardLines(dimension) : pos \in l /\ LineOf(l, m)

EmptyCells == {c \in Cells(dimension) : CellAt(c) = "None"}

\* The last iteration (or call) ran make_move and it succeeded.
Placed == called # NotReached /\ move_result.tag = "Ok"

----------------------------------------------------------------------------
(* Claims *)

\* C1: a successful make_move(pos, m) returns win(m) exactly when the
\* placement completes a row, a column, the main diagonal or the
\* anti-diagonal of N cells all equal to m; it never returns a win of the
\* other mark.
C1_WinIffLineCompleted ==
    Placed =>
        /\ (move_result.val = GameResultFrom(called.new_state))
              <=> CompletesLine(called.pos, called.new_state)
        /\ move_result.val # GameResultFrom(OtherSide(called.new_state))

\* A win by the anti-diagonal alone on the 3 x 3 board.
C1_Witness ==
    /\ Placed
    /\ dimension = 3
    /\ move_result.val = "CrossWin"
    /\ LineOf({Coordinate(i, 2 - i) : i \in 0..2}, "Cross")
    /\ \A l \in BoardLines(3) :
          LineOf(l, "Cross") => l = {Coordinate(i, 2 - i) : i \in 0..2}

\* C2: a successful placement that brings moves_made to N^2 - 1 without
\* completing a line through the placed cell returns Draw, while one cell
\* is still empty.
C2_DrawOnePlacementEarly ==
    (/\ Placed
     /\ moves_made = dimension * dimension - 1
     /\ ~CompletesLine(called.pos, called.new_state))
        => /\ move_result.val = "Draw"
           /\ Cardinality(EmptyCells) = 1

C2_Witness ==
    /\ Placed
    /\ dimension = 3
    /\ moves_made = 8
    /\ move_result.val = "Draw"
    /\ pc = "Draw"
    /\ Cardinality(EmptyCells) = 1

\* C3: make_move at (x, y) with x >= N or y >= N returns
\* InvalidCoordinate carrying that coordinate, whatever the mark and the
\* cell contents.
C3_OutOfRangeIsInvalidCoordinate ==
    (called # NotReached
     /\ (called.pos.x >= dimension \/ called.pos.y >= dimension))
        => move_result = Err(InvalidCoordinate(called.pos))

\* An out-of-range coordinate whose flat index is that of an occupied cell.
C3_Witness ==
    /\ called # NotReached
    /\ dimension = 2
    /\ called.pos = Coordinate(2, 0)
    /\ CellAt(Coordinate(0, 1)) # "None"
    /\ move_result = Err(InvalidCoordinate(Coordinate(2, 0)))

\* C4: once a make_move succeeded at an in-range coordinate c, every later
\* make_move at c, with either mark, returns InvalidMove(attempted mark,
\* mark of the first successful placement at c).
C4_OccupiedIsInvalidMove ==
    [][(/\ called' # NotReached
        /\ called'.pos \in DOMAIN first_placed
        /\ first_placed[called'.pos] # "None")
          => move_result' = Err(InvalidMove(called'.new_state,
                                            first_placed[called'.pos]))]_vars

\* A cell that took Nought, then refused Cross after calls elsewhere.
C4_Witness ==
    /\ called # NotReached
    /\ moves_made >= 2
    /\ called.pos \in DOMAIN first_placed
    /\ called.new_state = "Cross"
    /\ first_placed[called.pos] = "Nought"
    /\ move_result = Err(InvalidMove("Cross", "Nought"))

\* The last iteration called make_move and it failed.
MoveFailed == called # NotReached /\ move_result.tag = "Err"

\* C5: when make_move fails in the game loop, cells and moves_made are
\* unchanged, the side to move is unchanged and the loop goes on.
C5_IllegalMoveLeavesGameUnchanged ==
    [][MoveFailed' =>
          /\ data' = data
          /\ moves_made' = moves_made
          /\ current_side' = current_side
          /\ pc' = "loop"]_vars

\* Cross refused on an occupied cell, still to move.
C5_Witness ==
    /\ MoveFailed
    /\ move_result.err.tag = "InvalidMove"
    /\ moves_made >= 1
    /\ current_side = "Cross"
    /\ called.new_state = "Cross"
    /\ pc = "loop"

\* C6: when the input line fails to parse, make_move is not invoked, cells
\* and moves_made are unchanged, the side to move is unchanged and the loop
\* goes on.
C6_ParseErrorLeavesGameUnchanged ==
    [][(parsed'.tag = "Err") =>
          /\ called' = NotReached
          /\ move_result' = NotReached
          /\ data' = data
          /\ moves_made' = moves_made
          /\ current_side' = current_side
          /\ pc' = "loop"]_vars

\* A malformed coordinate in mid-game, Cross still to move.
C6_Witness ==
    /\ parsed.tag = "Err"
    /\ parsed.err.tag = "CoordinateError"
    /\ moves_made >= 1
    /\ current_side = "Cross"
    /\ pc = "loop"

\* The number of placements so far, counted on the board.
PlacementsOnBoard == Cardinality(Cells(dimension) \ EmptyCells)

\* C7 (state part): the k-th successful placement of a game is made with
\* Nought when k is odd and with Cross when k is even.
C7_KthPlacementSide ==
    Placed =>
        (called.new_state = (IF PlacementsOnBoard % 2 = 1 THEN "Nought" ELSE "Cross"))

\* C7: Nought places first and placements alternate from there, because the
\* side to move flips on exactly the iterations whose placement succeeded
\* with Ongoing, whatever parse errors and illegal moves come in between.
C7_PlacementsAlternateFromNought ==
    /\ []C7_KthPlacementSide
    /\ [][(current_side' # current_side)
             <=> (Placed' /\ move_result'.val = "Ongoing")]_vars

\* Nought placing first on the second line of a script, the first line
\* having placed nothing.
C7_Witness ==
    /\ Placed
    /\ reader_kind = "preset"
    /\ reads = 2
    /\ PlacementsOnBoard = 1
    /\ called.new_state = "Nought"
    /\ current_side = "Cross"

\* C8 (state part): a win or draw returned by a placement is the terminal
\* state of the loop; the script of tests::test_game on the 3 x 3 board
\* never takes more than five reads and ends in NoughtWin after exactly five.
C8_TerminalMatchesResult ==
    /\ (Placed /\ move_result.val # "Ongoing") => pc = move_result.val
    /\ pc \in {"NoughtWin", "CrossWin", "Draw"}
          => (Placed /\ move_result.val = pc)
    /\ (reader_kind = "preset" /\ moves = TestGameMoves /\ dimension = 3)
          => /\ reads <= 5
             /\ pc # "loop" => (pc = "NoughtWin" /\ reads = 5 /\ index = 5)
             /\ pc = "loop" => reads < 5

\* C8: as soon as a placement returns a win or a draw the loop ends in the
\* matching terminal state, and once the loop has ended nothing is read or
\* placed any more.
C8_GameOverEndsLoop ==
    /\ []C8_TerminalMatchesResult
    /\ [][pc = "loop"]_vars

C8_Witness ==
    /\ reader_kind = "preset"
    /\ moves = TestGameMoves
    /\ dimension = 3
    /\ pc = "NoughtWin"
    /\ reads = 5
    /\ LineOf({Coordinate(0, y) : y \in 0..2}, "Nought")

\* C9: a read that returns None ends the loop in input_failure with the
\* board as it was; a scripted reader is read at most Len(moves) + 1 times,
\* and the loop it drives terminates.
C9_NoneEndsLoop ==
    /\ [][(input' = None) =>
             /\ pc' = "input_failure"
             /\ data' = data
             /\ moves_made' = moves_made]_vars
    /\ [](reader_kind = "preset" => reads <= Len(moves) + 1)
    /\ [](pc = "input_failure" => input = None)
    /\ (reader_kind = "preset") ~> (pc # "loop")

\* A two-line script read to exhaustion: the third read returns None.
C9_Witness ==
    /\ reader_kind = "preset"
    /\ Len(moves) = 2
    /\ reads = 3
    /\ input = None
    /\ pc = "input_failure"
    /\ moves_made >= 1

\* C10: with the interactive reader, end of stream and a read error both
\* make the reader return None and end the loop in input_failure.
C10_EndOfStreamIsInputFailure ==
    stdin_event \in {"eof", "error"} => (input = None /\ pc = "input_failure")

\* C11: on a board that has only ever been changed by make_move calls,
\* successful or failing, moves_made is the number of non-empty cells and is
\* at most N * N.
C11_MovesMadeCountsMarks ==
    /\ moves_made = Cardinality(Cells(dimension) \ EmptyCells)
    /\ moves_made <= dimension * dimension

\* The board is full, the counter stands at N * N, and the last call was one
\* that failed.
C11_Witness ==
    /\ dimension = 2
    /\ EmptyCells = {}
    /\ moves_made = 4
    /\ MoveFailed

\* C12: a mark is never removed or written over, by a make_move call or by a
\* step of the game loop; a make_move call that succeeds changes exactly one
\* cell, the one named, from empty to the mark given; a step that is not a
\* successful make_move changes no cell.
C12_MarksArePermanent ==
    [][ /\ \A i \in 1..Len(data) : data[i] # "None" => data'[i] = data[i]
        /\ Len(data') = Len(data)
        /\ LET changed == {i \in 1..Len(data) : data'[i] # data[i]}
               succeeded == /\ called' # NotReached
                            /\ move_result' # NotReached
                            /\ move_result'.tag = "Ok"
           IN  IF succeeded
               THEN /\ changed = {called'.pos.y * dimension + called'.pos.x + 1}
                    /\ \A i \in changed : /\ data[i] = "None"
                                          /\ data'[i] = called'.new_state
               ELSE changed = {}
      ]_vars

\* A call on a cell that holds the other side's mark has just failed while
\* marks of both sides stand on the board.
C12_Witness ==
    /\ MoveFailed
    /\ move_result.err.tag = "InvalidMove"
    /\ move_result.err.to # move_result.err.from
    /\ \E c \in Cells(dimension) : CellAt(c) = "Nought"
    /\ \E c \in Cells(dimension) : CellAt(c) = "Cross"
    /\ pc = "loop"

\* The number of commas of a string: split on ',' gives one field more.
Commas(s) == Cardinality({i \in 1..Len(s) : s[i] = ","})

\* The argument of a finished parse_move call.
ParsedInput == input.val

\* C14: parse_move returns quit for "q" and "Q" and for nothing else; every
\* other input that does not split on ',' into exactly two fields is a
\* FormatError, whatever its fields hold.
C14_QuitAndFormatError ==
    pc = "parsed" =>
        /\ parsed = Ok(Quit) <=> ParsedInput \in {<<"q">>, <<"Q">>}
        /\ (ParsedInput \notin {<<"q">>, <<"Q">>} /\ Commas(ParsedInput) # 1)
               => parsed = Err(FormatError)

\* Three fields, none of them an integer, have been answered with FormatError.
C14_Witness ==
    /\ pc = "parsed"
    /\ ParsedInput = <<"a", ",", "-", ",">>
    /\ parsed = Err(FormatError)

\* The two fields of a string with exactly one comma.
CommaAt(s) == CHOOSE i \in 1..Len(s) : s[i] = ","
FieldX(s) == SubSeq(s, 1, CommaAt(s) - 1)
FieldY(s) == SubSeq(s, CommaAt(s) + 1, Len(s))

\* A field with its leading zeros taken off.
RECURSIVE Significant(_)
Significant(f) ==
    IF f # <<>> /\ Head(f) = "0" THEN Significant(Tail(f)) ELSE f

\* A string of digits of a number above usize::MAX: more digits than
\* usize::MAX has, or as many and a larger digit at the first difference.
AboveUsizeMax(f) ==
    LET ds == Significant(f) IN
    \/ Len(ds) > Len(UsizeMaxDigits)
    \/ /\ Len(ds) = Len(UsizeMaxDigits)
       /\ \E k \in 1..Len(ds) :
              /\ \A j \in 1..(k - 1) : to_digit(ds[j]) = UsizeMaxDigits[j]
              /\ to_digit(ds[k]) > UsizeMaxDigits[k]

\* One or more decimal digits, of a number that a usize holds.
IsDecimal(f) ==
    /\ f # <<>>
    /\ \A i \in 1..Len(f) : IsDigit(f[i])
    /\ ~AboveUsizeMax(f)

\* The number a string of digits writes.
RECURSIVE DecimalValue(_)
DecimalValue(f) ==
    IF f = <<>> THEN 0
    ELSE 10 * DecimalValue(SubSeq(f, 1, Len(f) - 1)) + to_digit(f[Len(f)])

\* C15, as stated: of an input with exactly two fields, parse_move returns
\* the placement at (field 0, field 1) when both fields are strings of
\* decimal digits, and CoordinateError when a field holds a character that is
\* no digit, a sign, nothing, or a number too large.
C15_DigitsOnlyOrCoordinateError ==
    (pc = "parsed" /\ ParsedInput \notin {<<"q">>, <<"Q">>}
                   /\ Commas(ParsedInput) = 1) =>
        LET fx == FieldX(ParsedInput)
            fy == FieldY(ParsedInput)
        IN  IF IsDecimal(fx) /\ IsDecimal(fy)
            THEN parsed = Ok(Move(Coordinate(DecimalValue(fx), DecimalValue(fy))))
            ELSE parsed.tag = "Err" /\ parsed.err.tag = "CoordinateError"

\* A field as str::parse::<usize> takes it: decimal digits, with at most one
\* '+' before them.
Unsigned(f) == IF f # <<>> /\ Head(f) = "+" THEN Tail(f) ELSE f

\* C15, amended: of an input with exactly two fields, parse_move returns the
\* placement at (field 0, field 1) when each field is a string of decimal
\* digits of a number a usize holds, with or without one '+' before it, and
\* CoordinateError otherwise.
C15_UnsignedOrCoordinateError ==
    (pc = "parsed" /\ ParsedInput \notin {<<"q">>, <<"Q">>}
                   /\ Commas(ParsedInput) = 1) =>
        LET fx == Unsigned(FieldX(ParsedInput))
            fy == Unsigned(FieldY(ParsedInput))
        IN  IF IsDecimal(fx) /\ IsDecimal(fy)
            THEN parsed = Ok(Move(Coordinate(DecimalValue(fx), DecimalValue(fy))))
            ELSE parsed.tag = "Err" /\ parsed.err.tag = "CoordinateError"

\* "+1,0" has been parsed to the placement at (1, 0).
C15_Witness ==
    /\ pc = "parsed"
    /\ ParsedInput = <<"+", "1", ",", "0">>
    /\ parsed = Ok(Move(Coordinate(1, 0)))

\* C16: a PresetMoveReader built from a script of L lines returns line k on
\* its k-th read for k = 1..L, and None on read L + 1 and on every read after
\* it; the cursor counts the lines handed out and never passes L.
C16_ScriptInOrderThenNone ==
    pc = "reader" =>
        /\ index <= Len(moves)
        /\ index = (IF reads <= Len(moves) THEN reads ELSE Len(moves))
        /\ reads >= 1 =>
               input = (IF reads <= Len(moves) THEN Some(moves[reads]) ELSE None)

\* A script of two different lines has been read four times: the second
\* None has been returned and the cursor stands at 2.
C16_Witness ==
    /\ pc = "reader"
    /\ Len(moves) = 2
    /\ moves[1] # moves[2]
    /\ reads = 4
    /\ index = 2
    /\ input = None

\* C17: GameBoard::new(0) fails; no board of dimension zero is returned.
C17_ZeroDimensionRejected ==
    pc = "not_started" => dimension >= 1

\* Mark m holds a whole line of the board.
HasLine(m) == \E l \in BoardLines(dimension) : LineOf(l, m)

\* C18: in no state of a game run by the loop from a fresh board do a whole
\* line of Nought and a whole line of Cross stand on the board together.
C18_NeverBothLines ==
    ~(HasLine("Nought") /\ HasLine("Cross"))

\* Nought has won on the 3 x 3 board while Cross held two cells of a line
\* whose third cell is empty.
C18_Witness ==
    /\ pc = "NoughtWin"
    /\ dimension = 3
    /\ HasLine("Nought")
    /\ \E l \in BoardLines(3) :
           \E c \in l : /\ CellAt(c) = "None"
                        /\ \A d \in l \ {c} : CellAt(d) = "Cross"

\* The outcome by a scan of the whole board: all 2N+2 lines for either mark,
\* then the draw threshold of N * N - 1 marks.
WholeBoardResult ==
    IF HasLine("Nought") THEN "NoughtWin"
    ELSE IF HasLine("Cross") THEN "CrossWin"
    ELSE IF PlacementsOnBoard = dimension * dimension - 1 THEN "Draw"
    ELSE "Ongoing"

\* C19: for every placement of a game run by the loop, the result make_move
\* returns, found by scanning the lines through the placed cell for the
\* placed mark only, is the result of the scan of the whole board.
C19_LocalScanIsWholeBoardScan ==
    Placed => move_result.val = WholeBoardResult

\* Cross has won by the bottom row of the 3 x 3 board at the sixth placement.
C19_Witness ==
    /\ Placed
    /\ dimension = 3
    /\ moves_made = 6
    /\ move_result.val = "CrossWin"
    /\ LineOf({Coordinate(x, 2) : x \in 0..2}, "Cross")
    /\ WholeBoardResult = "CrossWin"

\* The number of cells holding mark m.
Count(m) == Cardinality({c \in Cells(dimension) : CellAt(c) = m})

\* C20: in every state of a game run by the loop, Nought has as many marks
\* on the board as Cross or one more, and while the loop runs the side to
\* move is Nought exactly when the two have as many.
C20_CountsFollowTurns ==
    /\ Count("Nought") - Count("Cross") \in {0, 1}
    /\ pc = "loop" =>
           (current_side = "Nought" <=> Count("Nought") = Count("Cross"))

\* Cross is to move with two marks against one, after a call of Cross that
\* failed.
C20_Witness ==
    /\ pc = "loop"
    /\ current_side = "Cross"
    /\ Count("Nought") = 2
    /\ Count("Cross") = 1
    /\ MoveFailed
    /\ called.new_state = "Cross"

====
